---- MODULE Spec2Model ----
(***************************************************************************)
(* The adaptive energy/number sampler of src/mc/energy_number.rs:          *)
(* Bins (indexing, grow-and-remap), the two weight-update methods (SAMC,   *)
(* Wang-Landau), the acceptance decision, round-trip bookkeeping and the   *)
(* temperature estimate.                                                   *)
(*                                                                         *)
(* Numbers.  Energies are integers counted in half bin widths, so that the *)
(* bin centres min + (k + 0.5)*width and the bin edges are both exact.     *)
(* Log-weights and gamma are integers counted in 1/LnwUnit, where LnwUnit  *)
(* is divisible by every move count reached and by 2^(that count), so     *)
(* that t0/t and every halving of gamma are exact.  The f64 rounding of    *)
(* the source is not modelled.                                             *)
(***************************************************************************)
EXTENDS Integers, Sequences, FiniteSets, Bags, TLC

\* The number of move_once calls explored, with either method.
MaxMoves == 4
\* The number of move_once calls explored with the Wang-Landau method alone.
MaxMovesWL == 5
\* The number of move_once calls explored before a query function is called.
MaxMovesApi == 3
\* The number of move_once calls of a run that then calls prepare_for_state.
MaxMovesGrid == 2
\* The number of move_once calls of a Wang-Landau run that halves gamma and
\* then restarts.
MaxMovesRestart == 4
\* The number of move_once calls of a run with the plan AcceptanceRate.
MaxMovesRate == 3
\* The configured maximum number of atoms, params.max_N = Some(MaxAtoms).
MaxAtoms == 1

\* The energies the external system reports and proposes.
Energies == {-3, 0, 3}
\* The energy of the system at construction.
InitialEnergies == {0}
\* The energy bin sizes (params.energy_bin).
Widths == {2}
\* The t0 parameters of the SAMC method.
T0s == {0, 2}

RECURSIVE Gcd(_, _)
Gcd(a, b) == IF b = 0 THEN a ELSE Gcd(b, a % b)

RECURSIVE LcmUpTo(_)
LcmUpTo(n) == IF n <= 1 THEN 1 ELSE LET l == LcmUpTo(n - 1) IN (l * n) \div Gcd(l, n)

RECURSIVE Pow2(_)
Pow2(n) == IF n = 0 THEN 1 ELSE 2 * Pow2(n - 1)

\* The log-weight 1.0.
Max(S) == CHOOSE x \in S : \A y \in S : y <= x
Min(S) == CHOOSE x \in S : \A y \in S : x <= y

\* The largest move count any specification reaches.
MovesHorizon == Max({MaxMoves, MaxMovesWL, MaxMovesApi})

LnwUnit == LcmUpTo(MovesHorizon) * Pow2(MovesHorizon)

RECURSIVE SumOver(_, _)
SumOver(f, D) == IF D = {} THEN 0 ELSE LET d == CHOOSE x \in D : TRUE IN f[d] + SumOver(f, D \ {d})

Sum(f) == SumOver(f, DOMAIN f)

VARIABLES
    system,          \* the external system: its energy E and number of atoms N
    method,          \* Method: Samc {t0} or WL {gamma, lowest_hist, highest_hist, total_hist, bins}
    moves,           \* the number of moves that have been made
    accepted_moves,  \* the number of moves that have been accepted
    bins,            \* the energy bins
    last,            \* what the latest move_once call did, step by step
    visits,          \* the bag of the states of the system: at construction and after each move_once call
    trail,           \* the records of the latest four move_once calls, oldest first
    ret,             \* the latest result of a call of the public query functions
    move_plan,       \* MoveParams: _Explicit or AcceptanceRate(r)
    addremove_probability,  \* the current add/remove probability
    control          \* what the add/remove-probability control of the latest move_once did

vars == <<system, method, moves, accepted_moves, bins, last, visits, trail, ret,
          move_plan, addremove_probability, control>>

\* State { E, N }
State(E, N) == [E |-> E, N |-> N]

\* State::new
StateOf(sys) == State(sys.E, sys.N)

\* The f64 -> usize cast of `x as usize` for x = num/den, den > 0: truncation
\* towards zero, and 0 for every negative value (the cast saturates).
AsUsize(num, den) == IF num < 0 THEN 0 ELSE num \div den

state_to_index(b, s) == AsUsize(s.E - b.min, b.width) * (b.max_N + 1) + s.N

\* index_to_state dividing by max_N in place of max_N+1.
IndexToStateOffByOne(b, i) ==
    State(b.min + (i \div Max({b.max_N, 1})) * b.width + b.width \div 2, i % Max({b.max_N, 1}))

index_to_state(b, i) ==
    State(b.min + (i \div (b.max_N + 1)) * b.width + b.width \div 2, i % (b.max_N + 1))

emax(b) == b.min + b.width * b.num_E

nbins(b) == b.num_E * (b.max_N + 1)

\* The first loop without `newbins.num_E += 1`.
RECURSIVE GrowDownForgettingNumE(_, _, _, _)
GrowDownForgettingNumE(min, num_E, width, E) ==
    IF min > E THEN GrowDownForgettingNumE(min - width, num_E, width, E)
    ELSE [min |-> min, num_E |-> num_E]

\* while newbins.min > e.E { newbins.min -= self.width; newbins.num_E += 1; }
RECURSIVE GrowDown(_, _, _, _)
GrowDown(min, num_E, width, E) ==
    IF min > E THEN GrowDown(min - width, num_E + 1, width, E)
    ELSE [min |-> min, num_E |-> num_E]

\* The second loop with the test `newbins.emax() <= e.E + self.width`: one
\* bin of margin above e.
RECURSIVE GrowUpWithMargin(_, _, _, _)
GrowUpWithMargin(min, num_E, width, E) ==
    IF min + width * num_E <= E + width THEN GrowUpWithMargin(min, num_E + 1, width, E)
    ELSE num_E

\* while newbins.emax() <= e.E { newbins.num_E += 1; }
RECURSIVE GrowUp(_, _, _, _)
GrowUp(min, num_E, width, E) ==
    IF min + width * num_E <= E THEN GrowUp(min, num_E + 1, width, E) ELSE num_E

\* The index of the new grid that the remapping loop writes old entry i to.
RemapIndex(old, new, i) == state_to_index(new, index_to_state(old, i))

\* The remapping loop with j = i: the entries are copied to their old indices.
RemapInPlace(old, new, x, zero) ==
    [j \in 0 .. nbins(new) - 1 |-> IF j \in DOMAIN x THEN x[j] ELSE zero]

\* for i in 0..self.lnw.len() { ...; newbins.x[j] = self.x[i]; }  on an array
\* filled with `zero`; a later i overwrites an earlier one.
Remap(old, new, x, zero) ==
    [j \in 0 .. nbins(new) - 1 |->
        LET from == {i \in DOMAIN x : RemapIndex(old, new, i) = j}
        IN  IF from = {} THEN zero ELSE x[Max(from)]]

\* The loop `for n in 0..self.max_N`: the entry of the last count is not
\* copied.
PerCountSkippingLast(old_max_N, new_max_N, x, fill) ==
    [n \in 0 .. new_max_N |-> IF n < old_max_N THEN x[n] ELSE fill]

\* for n in 0..self.max_N+1 { newbins.x[n] = self.x[n]; }  on an array filled
\* with `fill`.
PerCount(old_max_N, new_max_N, x, fill) ==
    [n \in 0 .. new_max_N |-> IF n <= old_max_N THEN x[n] ELSE fill]

\* The test with `e.E > self.emax()`.
NeedsRoomStrictlyAbove(b, e) == e.N > b.max_N \/ e.E < b.min \/ e.E > emax(b)

\* Whether prepare_for_state(e) has to make changes.
NeedsRoom(b, e) == e.N > b.max_N \/ e.E < b.min \/ e.E >= emax(b)

\* The new bins of prepare_for_state: geo is the clone of b with the new
\* max_N, min and num_E; the arrays are allocated and filled from b.
Rebuilt(b, geo) ==
    [geo EXCEPT
        !.lnw = Remap(b, geo, b.lnw, 0),
        !.histogram = Remap(b, geo, b.histogram, 0),
        !.translation_scale =
            PerCount(b.max_N, geo.max_N, b.translation_scale, b.translation_scale[0]),
        !.num_translation_attempts =
            PerCount(b.max_N, geo.max_N, b.num_translation_attempts, 0),
        !.num_translation_accepted =
            PerCount(b.max_N, geo.max_N, b.num_translation_accepted, 0),
        !.have_visited_since_maxentropy =
            Remap(b, geo, b.have_visited_since_maxentropy, FALSE),
        !.round_trips = Remap(b, geo, b.round_trips, 0)]

\* The clone of b with min and num_E as the first loop left them (down), and
\* num_E as the second loop leaves it.
Regrid(b, e, down) ==
    [b EXCEPT !.max_N = IF e.N > b.max_N THEN e.N ELSE b.max_N,
              !.min = down.min,
              !.num_E = GrowUp(down.min, down.num_E, b.width, e.E)]

\* Bins::prepare_for_state: the bins after the call.
prepare_for_state(b, e) ==
    IF NeedsRoom(b, e)
    THEN Rebuilt(b, Regrid(b, e, GrowDown(b.min, b.num_E, b.width, e.E)))
    ELSE b

\* 0.05*units::SIGMA, counted in 1/100 SIGMA.
DefaultTranslationScale == 5

\* The Bins with `t_last: 0`.
InitialBinsTLastZero(E0, width) ==
    [ histogram |-> [i \in {0} |-> 1],
      lnw |-> [i \in {0} |-> 0],
      translation_scale |-> [n \in {0} |-> DefaultTranslationScale],
      num_translation_attempts |-> [n \in {0} |-> 0],
      num_translation_accepted |-> [n \in {0} |-> 0],
      num_addremove_attempts |-> 0,
      num_addremove_accepted |-> 0,
      min |-> E0 - width \div 2,
      width |-> width,
      have_visited_since_maxentropy |-> [i \in {0} |-> FALSE],
      round_trips |-> [i \in {0} |-> 1],
      max_S |-> 0,
      max_S_index |-> 0,
      max_N |-> 0,
      num_E |-> 1,
      num_states |-> 1,
      t_last |-> 0 ]

\* The Bins that from_params and Method::new build: one bin, centred on the
\* energy of the system.
InitialBins(E0, width) ==
    [ histogram |-> [i \in {0} |-> 1],
      lnw |-> [i \in {0} |-> 0],
      translation_scale |-> [n \in {0} |-> DefaultTranslationScale],
      num_translation_attempts |-> [n \in {0} |-> 0],
      num_translation_accepted |-> [n \in {0} |-> 0],
      num_addremove_attempts |-> 0,
      num_addremove_accepted |-> 0,
      min |-> E0 - width \div 2,
      width |-> width,
      have_visited_since_maxentropy |-> [i \in {0} |-> FALSE],
      round_trips |-> [i \in {0} |-> 1],
      max_S |-> 0,
      max_S_index |-> 0,
      max_N |-> 0,
      num_E |-> 1,
      num_states |-> 1,
      t_last |-> 1 ]

\* Method::WL with `min: sys.energy()`: the initial energy is on the lower
\* edge of the bin of the auxiliary bins.
NewWLUncentred(E0, width) ==
    [ kind |-> "WL",
      gamma |-> LnwUnit,
      lowest_hist |-> 1,
      highest_hist |-> 1,
      total_hist |-> 0,
      bins |-> [InitialBins(E0, width) EXCEPT !.min = E0] ]

\* Method::new
NewSamc(t0) == [kind |-> "Samc", t0 |-> t0]

NewWL(E0, width) ==
    [ kind |-> "WL",
      gamma |-> LnwUnit,
      lowest_hist |-> 1,
      highest_hist |-> 1,
      total_hist |-> 0,
      bins |-> InitialBins(E0, width) ]

\* gamma without the test `t > t0`: t0/t from the first move on.
GammaUncapped(m, t) ==
    IF m.kind = "Samc" THEN (m.t0 * LnwUnit) \div t ELSE m.gamma

\* EnergyNumberMC::gamma, at move count t.
gamma(m, t) ==
    IF m.kind = "Samc"
    THEN IF t > m.t0 THEN (m.t0 * LnwUnit) \div t ELSE LnwUnit
    ELSE m.gamma

\* The test with lnw2 >= lnw1.
RejectedOnTie(lnw1, lnw2, draw) == lnw2 >= lnw1 /\ draw

\* lnw2 > lnw1 && self.rng.gen::<f64>() > (lnw1 - lnw2).exp(): the draw is
\* in [0, 1) and the exponential of a negative number is in [0, 1), so the
\* comparison of the two can go either way.
Rejected(lnw1, lnw2, draw) == lnw2 > lnw1 /\ draw

\* The restart without `*gamma = 1.0`.
RegroupedKeepingGamma(m, aux, grew) ==
    IF grew /\ (m.gamma # LnwUnit \/ Cardinality(DOMAIN aux.histogram) = 0)
    THEN [ method |-> [m EXCEPT !.bins = aux, !.lowest_hist = 0,
                                !.highest_hist = 0, !.total_hist = 0],
           grew |-> grew, fresh |-> TRUE ]
    ELSE [ method |-> [m EXCEPT !.bins = aux], grew |-> grew, fresh |-> FALSE ]

\* The restart without the test of gamma: every growth starts afresh.
RegroupedAlways(m, aux, grew) ==
    IF grew
    THEN [ method |-> [m EXCEPT !.bins = aux, !.gamma = LnwUnit, !.lowest_hist = 0,
                                !.highest_hist = 0, !.total_hist = 0],
           grew |-> grew, fresh |-> TRUE ]
    ELSE [ method |-> [m EXCEPT !.bins = aux], grew |-> grew, fresh |-> FALSE ]

\* if bins.prepare_for_state(e2) { if *gamma != 1.0 || bins.histogram.len() == 0
\* { *gamma = 1.0; *lowest_hist = 0; *highest_hist = 0; *total_hist = 0; } }
\* with aux the auxiliary bins after prepare_for_state and grew its result.
Regrouped(m, aux, grew) ==
    IF grew /\ (m.gamma # LnwUnit \/ Cardinality(DOMAIN aux.histogram) = 0)
    THEN [ method |-> [m EXCEPT !.bins = aux, !.gamma = LnwUnit, !.lowest_hist = 0,
                                !.highest_hist = 0, !.total_hist = 0],
           grew |-> grew, fresh |-> TRUE ]
    ELSE [ method |-> [m EXCEPT !.bins = aux], grew |-> grew, fresh |-> FALSE ]

\* The arm of reject_move for Method::WL up to the acceptance decision: the
\* auxiliary bins make room for e2, and the schedule is restarted when they
\* grew with gamma != 1.0.
Regroup(m, e2) == Regrouped(m, prepare_for_state(m.bins, e2), NeedsRoom(m.bins, e2))

\* The result of reject_move, with re what the method's arm did.
Decision(lnw1, lnw2, draw, re) ==
    [ rejected |-> Rejected(lnw1, lnw2, draw),
      method |-> re.method,
      lnw1 |-> lnw1,
      lnw2 |-> lnw2,
      aux_grew |-> re.grew,
      fresh |-> re.fresh ]

\* EnergyNumberMC::reject_move, on the bins b that were prepared for e2.
reject_move(b, m, e1, e2, draw) ==
    Decision(b.lnw[state_to_index(b, e1)], b.lnw[state_to_index(b, e2)], draw,
             IF m.kind = "WL" THEN Regroup(m, e2)
             ELSE [method |-> m, grew |-> FALSE, fresh |-> FALSE])

\* *lowest_hist as f64 >= 0.8 * *total_hist as f64 / num_states
IsFlat(lowest_hist, total_hist, num_states) ==
    10 * lowest_hist * num_states >= 8 * total_hist

\* bins.histogram.iter().enumerate().filter(|(i,_)| histogram[*i] != 0)
\*     .map(|(_,&h)|h).min() == Some(x)
MinOverVisited(aux_histogram, histogram, x) ==
    LET seen == {aux_histogram[k] : k \in {k \in DOMAIN aux_histogram : histogram[k] # 0}}
    IN  seen # {} /\ Min(seen) = x

\* The halving without `*lowest_hist = 0`.
FlatnessKeepingLowest(m, i, counted, total, lowest_moves, num_states) ==
    LET highest == IF counted[i] > m.highest_hist THEN counted[i] ELSE m.highest_hist
        lowest == IF lowest_moves THEN counted[i] ELSE m.lowest_hist
        halve == lowest_moves /\ Cardinality(DOMAIN counted) > 1
                 /\ IsFlat(lowest, total, num_states)
    IN  [ method |->
            IF halve
            THEN [m EXCEPT !.gamma = @ \div 2,
                           !.bins.histogram = [k \in DOMAIN counted |-> 0],
                           !.highest_hist = highest,
                           !.total_hist = 0,
                           !.lowest_hist = lowest]
            ELSE [m EXCEPT !.bins.histogram = counted,
                           !.highest_hist = highest,
                           !.total_hist = total,
                           !.lowest_hist = lowest],
          halved |-> halve,
          counted |-> counted,
          total |-> total,
          lowest |-> lowest ]

\* The arm of update_weights for Method::WL after bins.histogram[i] += 1 and
\* *total_hist += 1: counted is the auxiliary histogram and total the
\* total_hist after them, lowest_moves the condition of the outer if.
Flatness(m, i, counted, total, lowest_moves, num_states) ==
    LET highest == IF counted[i] > m.highest_hist THEN counted[i] ELSE m.highest_hist
        lowest == IF lowest_moves THEN counted[i] ELSE m.lowest_hist
        halve == lowest_moves /\ Cardinality(DOMAIN counted) > 1
                 /\ IsFlat(lowest, total, num_states)
    IN  [ method |->
            IF halve
            THEN [m EXCEPT !.gamma = @ \div 2,
                           !.bins.histogram = [k \in DOMAIN counted |-> 0],
                           !.highest_hist = highest,
                           !.total_hist = 0,
                           !.lowest_hist = 0]
            ELSE [m EXCEPT !.bins.histogram = counted,
                           !.highest_hist = highest,
                           !.total_hist = total,
                           !.lowest_hist = lowest],
          halved |-> halve,
          counted |-> counted,
          total |-> total,
          lowest |-> lowest ]

\* The arm of update_weights for Method::WL, at index i of both histograms.
FlatnessStep(m, i, histogram, num_states) ==
    Flatness(m, i, [m.bins.histogram EXCEPT ![i] = @ + 1], m.total_hist + 1,
             m.bins.histogram[i] + 1 = m.lowest_hist + 1
             /\ MinOverVisited([m.bins.histogram EXCEPT ![i] = @ + 1], histogram,
                               m.lowest_hist + 1),
             num_states)

\* The weight added after the halving: the halved gamma when fl halved it.
WeightedAfterHalving(b, i, g, fl) ==
    [ bins |-> [b EXCEPT !.lnw[i] = @ + (IF fl.halved THEN g \div 2 ELSE g)],
      method |-> fl.method,
      gamma |-> g,
      halved |-> fl.halved,
      counted |-> fl.counted,
      total |-> fl.total,
      lowest |-> fl.lowest ]

\* The result of update_weights: g is the gamma added to lnw[i], fl what the
\* method's arm did.
Weighted(b, i, g, fl) ==
    [ bins |-> [b EXCEPT !.lnw[i] = @ + g],
      method |-> fl.method,
      gamma |-> g,
      halved |-> fl.halved,
      counted |-> fl.counted,
      total |-> fl.total,
      lowest |-> fl.lowest ]

\* EnergyNumberMC::update_weights, at move count t.
update_weights(b, m, t, energy) ==
    Weighted(b, state_to_index(b, energy), gamma(m, t),
             IF m.kind = "WL"
             THEN FlatnessStep(m, state_to_index(b, energy), b.histogram, b.num_states)
             ELSE [method |-> m, halved |-> FALSE, counted |-> <<>>,
                   total |-> 0, lowest |-> 0])

\* The bookkeeping without the test `self.state_to_index(e1) != i`: arriving
\* at max_S_index from another bin does not clear the flags.
RoundTripBranchNeverClears(b, i, i1) ==
    IF b.lnw[i] > b.max_S THEN "newmax"
    ELSE IF i = b.max_S_index THEN "stay"
    ELSE IF ~b.have_visited_since_maxentropy[i] THEN "trip"
    ELSE "none"

\* The round-trip bookkeeping at the end of move_once: i is the index of the
\* resulting state, i1 the index of the state the move started from.
RoundTripBranch(b, i, i1) ==
    IF b.lnw[i] > b.max_S THEN "newmax"
    ELSE IF i = b.max_S_index THEN (IF i1 # i THEN "clear" ELSE "stay")
    ELSE IF ~b.have_visited_since_maxentropy[i] THEN "trip"
    ELSE "none"

RoundTripArm(b, i, br) ==
    IF br = "newmax"
    THEN [b EXCEPT !.max_S = b.lnw[i], !.max_S_index = i,
                   !.have_visited_since_maxentropy =
                       [k \in DOMAIN b.have_visited_since_maxentropy |-> TRUE]]
    ELSE IF br = "clear"
    THEN [b EXCEPT !.have_visited_since_maxentropy =
                       [k \in DOMAIN b.have_visited_since_maxentropy |-> FALSE]]
    ELSE IF br = "trip"
    THEN [b EXCEPT !.have_visited_since_maxentropy[i] = TRUE, !.round_trips[i] = @ + 1]
    ELSE b

round_trip(b, i, i1) == RoundTripArm(b, i, RoundTripBranch(b, i, i1))

\* Temperatures are f64 quotients dE/dlnw: a finite n/d with d > 0, one of
\* the values +inf, -inf, NaN that a division by a zero dlnw gives, or the
\* constant 1e300, which is above every finite quotient of the model.
Finite(n, d) == [k |-> "fin", n |-> n, d |-> d]
Special(k) == [k |-> k, n |-> 0, d |-> 1]

\* Energy::new(0.)
Tzero == Finite(0, 1)

\* Energy::new(1e300)
T1e300 == Special("1e300")

Abs(x) == IF x < 0 THEN -x ELSE x

\* The quotient dE / dlnw, in lowest terms.
Quotient(dE, dlnw) ==
    IF dlnw = 0
    THEN IF dE > 0 THEN Special("+inf") ELSE IF dE < 0 THEN Special("-inf")
         ELSE Special("NaN")
    ELSE LET g == Gcd(Abs(dE), Abs(dlnw))
             sign == IF dlnw < 0 THEN -1 ELSE 1
         IN  IF dE = 0 THEN Tzero ELSE Finite(sign * (dE \div g), sign * (dlnw \div g))

Rank(T) == IF T.k = "-inf" THEN 0 ELSE IF T.k = "fin" THEN 1
           ELSE IF T.k = "1e300" THEN 2 ELSE 3

\* a > b on f64: false when either is NaN.
Greater(a, b) ==
    /\ a.k # "NaN" /\ b.k # "NaN"
    /\ IF a.k = "fin" /\ b.k = "fin" THEN a.n * b.d > b.n * a.d ELSE Rank(a) > Rank(b)

\* The quotients Tj of the bins j in `js` with lnwj > 0.
Slopes(b, energy, lnwi, js) ==
    {Quotient(energy - index_to_state(b, j).E, lnwi - b.lnw[j]) :
        j \in {j \in js : b.lnw[j] > 0}}

\* for j in 0..i { if lnwj > 0 { Tj = ...; if Tj > Tlo { Tlo = Tj; } } }
\* Starting from Tlo = 0 the loop ends with the largest of 0 and the Tj; a
\* NaN Tj is never assigned, as it compares false.
ScanLower(b, energy, lnwi, i) ==
    LET Ts == {T \in Slopes(b, energy, lnwi, 0 .. i - 1) : T.k # "NaN"} \cup {Tzero}
    IN  CHOOSE T \in Ts : \A U \in Ts : ~Greater(U, T)

\* for j in i+1 .. self.bins.lnw.len() { if lnwj > 0 { Tj = ...; if Tj < Thi { Thi = Tj; } } }
\* Starting from Thi = 1e300 the loop ends with the smallest of 1e300 and the Tj.
ScanHigher(b, energy, lnwi, i) ==
    LET Ts == {T \in Slopes(b, energy, lnwi, i + 1 .. nbins(b) - 1) : T.k # "NaN"}
              \cup {T1e300}
    IN  CHOOSE T \in Ts : \A U \in Ts : ~Greater(T, U)

\* EnergyNumberMC::temperature: which of the three returns is taken, and the
\* two bounds; the value returned is 0.5*(Thi + Tlo), Tlo or Thi.
temperature(b, s) ==
    LET i == state_to_index(b, s)
        Tlo == ScanLower(b, s.E, b.lnw[i], i)
        Thi == ScanHigher(b, s.E, b.lnw[i], i)
    IN  [ returns |-> IF Greater(Thi, Tlo) /\ Greater(Tlo, Tzero) THEN "average"
                      ELSE IF Greater(Tlo, Tzero) THEN "Tlo" ELSE "Thi",
          Tlo |-> Tlo,
          Thi |-> Thi ]

\* What the external system can be asked to plan: no move, or a move to the
\* energy E.
Plans == {[some |-> FALSE, E |-> 0]} \cup {[some |-> TRUE, E |-> e] : e \in Energies}

NoState == [some |-> FALSE, s |-> State(0, 0)]

\* The candidate with the test `num_atoms() > max_N`: an add is still planned
\* when the system holds max_N atoms.
CandidateAddingAtMax(sys, cat, add, plan) ==
    IF cat = "translate"
    THEN [some |-> plan.some, s |-> State(plan.E, sys.N)]
    ELSE IF add
    THEN IF sys.N > MaxAtoms THEN [some |-> FALSE, s |-> State(0, 0)]
         ELSE [some |-> plan.some, s |-> State(plan.E, sys.N + 1)]
    ELSE IF sys.N > 0 THEN [some |-> TRUE, s |-> State(plan.E, sys.N - 1)]
         ELSE [some |-> FALSE, s |-> State(0, 0)]

\* The candidate state of move_once, Option<State>: translate asks plan_move;
\* add asks plan_add unless the system holds max_N atoms; remove asks
\* plan_remove (which always answers) unless the system is empty.
Candidate(sys, cat, add, plan) ==
    IF cat = "translate"
    THEN [some |-> plan.some, s |-> State(plan.E, sys.N)]
    ELSE IF add
    THEN IF sys.N = MaxAtoms THEN NoState
         ELSE [some |-> plan.some, s |-> State(plan.E, sys.N + 1)]
    ELSE IF sys.N > 0 THEN [some |-> TRUE, s |-> State(plan.E, sys.N - 1)]
         ELSE NoState

\* The attempt counted for translations only.
CountAttemptOfTranslations(b, cat, N) ==
    IF cat = "translate" THEN [b EXCEPT !.num_translation_attempts[N] = @ + 1]
    ELSE b

\* self.bins.num_translation_attempts[e1.N] += 1 / num_addremove_attempts += 1
CountAttempt(b, cat, N) ==
    IF cat = "translate" THEN [b EXCEPT !.num_translation_attempts[N] = @ + 1]
    ELSE [b EXCEPT !.num_addremove_attempts = @ + 1]

\* self.bins.num_translation_accepted[e1.N] += 1 / num_addremove_accepted += 1
CountAccepted(b, cat, N) ==
    IF cat = "translate" THEN [b EXCEPT !.num_translation_accepted[N] = @ + 1]
    ELSE [b EXCEPT !.num_addremove_accepted = @ + 1]

\* The visit counted only inside the `if`.
CountVisitWhenNew(b, i, t) ==
    IF b.histogram[i] = 0
    THEN [b EXCEPT !.num_states = @ + 1, !.t_last = t, !.histogram[i] = @ + 1]
    ELSE b

\* The bookkeeping without `self.bins.t_last = self.moves`.
CountVisitForgettingTLast(b, i, t) ==
    LET fresh == IF b.histogram[i] = 0
                 THEN [b EXCEPT !.num_states = @ + 1]
                 ELSE b
    IN  [fresh EXCEPT !.histogram[i] = @ + 1]

\* if self.bins.histogram[i] == 0 { num_states += 1; t_last = moves; }
\* self.bins.histogram[i] += 1;
CountVisit(b, i, t) ==
    LET fresh == IF b.histogram[i] = 0
                 THEN [b EXCEPT !.num_states = @ + 1, !.t_last = t]
                 ELSE b
    IN  [fresh EXCEPT !.histogram[i] = @ + 1]

\* The record of what a move_once call did.
Did(cat, e1, p, rj, confirmed, counted, uw, i, i1) ==
    [ category |-> cat,
      proposed |-> p.cand.some,
      e1 |-> e1,
      e2 |-> p.cand.s,
      before |-> p.tried,
      after |-> p.room,
      grew |-> p.cand.some /\ NeedsRoom(p.tried, p.cand.s),
      lnw1 |-> rj.lnw1,
      lnw2 |-> rj.lnw2,
      confirmed |-> confirmed,
      aux_grew |-> rj.aux_grew,
      fresh |-> rj.fresh,
      regrouped |-> rj.method,
      gamma |-> uw.gamma,
      halved |-> uw.halved,
      counted |-> uw.counted,
      total |-> uw.total,
      lowest |-> uw.lowest,
      num_states |-> counted.num_states,
      i |-> i,
      i1 |-> i1,
      branch |-> RoundTripBranch(uw.bins, i, i1) ]

\* move_once from `self.update_weights(energy)` on: uw is its result, then
\* the round-trip bookkeeping.
Weigh(cat, e1, t, acc, p, rj, confirmed, sys2, i, counted, uw) ==
    [ system |-> sys2,
      method |-> uw.method,
      moves |-> t,
      accepted_moves |-> acc,
      bins |-> round_trip(uw.bins, i, state_to_index(uw.bins, e1)),
      did |-> Did(cat, e1, p, rj, confirmed, counted, uw, i, state_to_index(uw.bins, e1)) ]

\* move_once from `let energy = State::new(&self.system)` on: decided are the
\* bins and sys2 the system after the decision, i the index of its state.
Visit(cat, e1, t, acc, p, rj, confirmed, sys2, i, counted) ==
    Weigh(cat, e1, t, acc, p, rj, confirmed, sys2, i, counted,
          update_weights(counted, rj.method, t, StateOf(sys2)))

\* move_once after reject_move answered rj (a move that was not proposed
\* counts as not confirmed).
Resolve(cat, sys, t, acc, p, rj, confirmed, sys2, decided) ==
    Visit(cat, StateOf(sys), t, IF confirmed THEN acc + 1 ELSE acc, p, rj, confirmed, sys2,
          state_to_index(decided, StateOf(sys2)),
          CountVisit(decided, state_to_index(decided, StateOf(sys2)), t))

Decide(cat, sys, t, acc, p, rj) ==
    Resolve(cat, sys, t, acc, p, rj, p.cand.some /\ ~rj.rejected,
            IF p.cand.some /\ ~rj.rejected THEN [E |-> p.cand.s.E, N |-> p.cand.s.N]
            ELSE sys,
            IF p.cand.some /\ ~rj.rejected THEN CountAccepted(p.room, cat, sys.N)
            ELSE p.room)

\* The first half of move_once: the attempt is counted, and the bins make
\* room for the candidate if there is one.
Propose(cand, tried) ==
    [ cand |-> cand,
      tried |-> tried,
      room |-> IF cand.some THEN prepare_for_state(tried, cand.s) ELSE tried ]

Proposed(cat, sys, m, t, acc, draw, p) ==
    Decide(cat, sys, t, acc, p,
           IF p.cand.some THEN reject_move(p.room, m, StateOf(sys), p.cand.s, draw)
           ELSE [rejected |-> TRUE, method |-> m, lnw1 |-> 0, lnw2 |-> 0,
                 aux_grew |-> FALSE, fresh |-> FALSE])

\* EnergyNumberMC::move_once with the move plan MoveParams::_Explicit: the
\* values of every field after the call, and what the call did on the way.
move_once(sys, m, t0, acc, b, cat, add, plan, draw) ==
    Proposed(cat, sys, m, t0 + 1, acc, draw,
             Propose(Candidate(sys, cat, add, plan), CountAttempt(b, cat, sys.N)))

\* Nothing was done yet.
Nothing(b) ==
    [ category |-> "none", proposed |-> FALSE, e1 |-> State(0, 0), e2 |-> State(0, 0),
      before |-> b, after |-> b, grew |-> FALSE, lnw1 |-> 0, lnw2 |-> 0,
      confirmed |-> FALSE, aux_grew |-> FALSE, fresh |-> FALSE,
      regrouped |-> [kind |-> "none"], gamma |-> 0,
      halved |-> FALSE, counted |-> <<>>, total |-> 0, lowest |-> 0, num_states |-> 0,
      i |-> 0, i1 |-> 0, branch |-> "none" ]

NoCall == [op |-> "none", arg |-> 0, val |-> 0]

\* The record of one move_once call that `trail` keeps: the bin of the
\* resulting state (by its centre), whether that bin is the max-entropy bin
\* after the call (the bin max_S_index names, its log-weight being max_S),
\* which arm the round-trip bookkeeping took, and the bin's flag and
\* round_trips count before and after the bookkeeping.
TrailEntry(r) ==
    [ bin |-> index_to_state(r.bins, r.did.i),
      at_max |-> r.did.i = r.bins.max_S_index /\ r.bins.lnw[r.did.i] = r.bins.max_S,
      branch |-> r.did.branch,
      flag_before |-> r.did.after.have_visited_since_maxentropy[r.did.i],
      rt_before |-> r.did.after.round_trips[r.did.i],
      rt_after |-> r.bins.round_trips[r.did.i] ]

Push(tr, x) == IF Len(tr) < 4 THEN Append(tr, x) ELSE Append(Tail(tr), x)

Methods(E0, w) == {NewSamc(t0) : t0 \in T0s} \cup {NewWL(E0, w)}

\* MoveParams::_Explicit { translation_scale: 0.05*units::SIGMA,
\* addremove_probability: 0.05 }, the default of the parameters.
Explicit == [kind |-> "_Explicit", addremove_probability |-> Finite(1, 20)]

\* MoveParams::AcceptanceRate(r)
AcceptanceRate(r) == [kind |-> "AcceptanceRate", r |-> r]

\* The acceptance rates asked for.
Rates == {Finite(1, 2), Finite(1, 1)}

\* The probability from_params starts with.
InitialProbability(plan) ==
    IF plan.kind = "_Explicit" THEN plan.addremove_probability ELSE Finite(1, 2)

\* The f64 literal 0.999
P999 == Finite(999, 1000)

\* (r - translation_acceptance_rate)/(acceptance_rate - translation_acceptance_rate)
\* on f64: NaN when a rate is the NaN of 0/0 or both differences are 0,
\* an infinity when only the divisor is 0.
new_p(r, acceptance_rate, translation_acceptance_rate) ==
    IF acceptance_rate.k # "fin" \/ translation_acceptance_rate.k # "fin"
    THEN Special("NaN")
    ELSE Quotient((r.n * translation_acceptance_rate.d - translation_acceptance_rate.n * r.d)
                      * acceptance_rate.d,
                  (acceptance_rate.n * translation_acceptance_rate.d
                      - translation_acceptance_rate.n * acceptance_rate.d) * r.d)

\* if !new_p.is_nan() { if new_p > 0.999 { 0.999 } else { new_p } }
Controlled(old, np) ==
    [ ran |-> TRUE,
      new_p |-> np,
      addremove_probability |->
          IF np.k # "NaN" THEN (IF Greater(np, P999) THEN P999 ELSE np) ELSE old ]

\* No control ran in the move.
NoControl == [ran |-> FALSE, new_p |-> Special("NaN"), addremove_probability |-> Finite(0, 1)]

\* if self.moves % self.bins.t_last == 0 { if let MoveParams::AcceptanceRate(r)
\* = self.move_plan { ... } }  with t the moves, acc the accepted_moves and b
\* the bins after the move was decided and the new-state bookkeeping was done.
AdaptAddremoveProbability(plan, old, t, acc, b) ==
    IF t % b.t_last = 0 /\ plan.kind = "AcceptanceRate"
    THEN Controlled(old,
             new_p(plan.r,
                   Quotient(b.num_addremove_accepted, b.num_addremove_attempts),
                   Quotient(acc - b.num_addremove_accepted, t - b.num_addremove_attempts)))
    ELSE [NoControl EXCEPT !.addremove_probability = old]

\* if self.rng.gen::<f64>() > self.addremove_probability: the draw is in
\* [0, 1), so a translation can be chosen when the probability is below 1 and
\* an add/remove when it is at least 0.
CanChoose(cat, prob) ==
    IF cat = "translate" THEN Greater(Finite(1, 1), prob)
    ELSE ~Greater(Finite(0, 1), prob)

\* EnergyNumberMC::from_params with one of the move plans `plans`, for a
\* system that starts with no atoms.
Start(plans) ==
    \E E0 \in InitialEnergies, w \in Widths :
        /\ system = [E |-> E0, N |-> 0]
        /\ method \in Methods(E0, w)
        /\ moves = 0
        /\ accepted_moves = 0
        /\ bins = InitialBins(E0, w)
        /\ last = Nothing(bins)
        /\ visits = SetToBag({State(E0, 0)})
        /\ trail = <<>>
        /\ ret = NoCall
        /\ move_plan \in plans
        /\ addremove_probability = InitialProbability(move_plan)
        /\ control = NoControl

\* from_params with the explicit move plan.
Init == Start({Explicit})

\* One call of move_once, while fewer than `limit` moves were made.
Step(limit) ==
    /\ moves < limit
    /\ ret.op = "none"
    /\ \E cat \in {"translate", "addremove"}, add \in BOOLEAN, plan \in Plans,
          draw \in BOOLEAN :
        /\ CanChoose(cat, addremove_probability)
        /\ cat = "translate" => add
        /\ (cat = "addremove" /\ ~add /\ system.N > 0) => plan.some
        /\ \E r \in {move_once(system, method, moves, accepted_moves, bins,
                                cat, add, plan, draw)} :
               /\ system' = r.system
               /\ method' = r.method
               /\ moves' = r.moves
               /\ accepted_moves' = r.accepted_moves
               /\ bins' = r.bins
               /\ last' = r.did
               /\ visits' = visits (+) SetToBag({StateOf(r.system)})
               /\ trail' = Push(trail, TrailEntry(r))
               /\ ret' = ret
               /\ move_plan' = move_plan
               /\ control' = AdaptAddremoveProbability(move_plan, addremove_probability,
                                                      r.moves, r.accepted_moves, r.bins)
               /\ addremove_probability' = control'.addremove_probability

MoveOnce == Step(MaxMoves)

Next == MoveOnce

\* Runs of move_once with either method.
Spec == Init /\ [][Next]_vars

MoveOnceWL == Step(MaxMovesWL)

InitWL == Init /\ method.kind = "WL"

NextWL == MoveOnceWL

\* Runs of move_once with the Wang-Landau method.
SpecWL == InitWL /\ [][NextWL]_vars

MoveOnceRestart == Step(MaxMovesRestart)

NextRestart == MoveOnceRestart

\* Runs of move_once with the Wang-Landau method, long enough for a halving
\* of gamma followed by a restart.
SpecRestart == InitWL /\ [][NextRestart]_vars

\* The states the query functions are called with.
QueryEnergies == -6 .. 6

QueryStates == {State(E, N) : E \in QueryEnergies, N \in 0 .. MaxAtoms}

\* A call of the public state_to_index: it returns an index for every state
\* (no path of the function ends the program).
CallStateToIndex ==
    /\ ret.op = "none"
    /\ \E s \in QueryStates :
        ret' = [op |-> "state_to_index", arg |-> s,
                val |-> [fatal |-> FALSE, index |-> state_to_index(bins, s)]]
    /\ UNCHANGED <<system, method, moves, accepted_moves, bins, last, visits, trail,
                 move_plan, addremove_probability, control>>

\* A call of the public index_to_state with an index of the grid.
CallIndexToState ==
    /\ ret.op = "none"
    /\ \E i \in 0 .. nbins(bins) - 1 :
        ret' = [op |-> "index_to_state", arg |-> i, val |-> index_to_state(bins, i)]
    /\ UNCHANGED <<system, method, moves, accepted_moves, bins, last, visits, trail,
                 move_plan, addremove_probability, control>>

\* A call of the public temperature with a state that the grid covers.
CallTemperature ==
    /\ ret.op = "none"
    /\ \E s \in {q \in QueryStates : ~NeedsRoom(bins, q)} :
        ret' = [op |-> "temperature", arg |-> s, val |-> temperature(bins, s)]
    /\ UNCHANGED <<system, method, moves, accepted_moves, bins, last, visits, trail,
                 move_plan, addremove_probability, control>>

MoveOnceApi == Step(MaxMovesApi)

NextApi == MoveOnceApi \/ CallStateToIndex \/ CallIndexToState \/ CallTemperature

\* Runs of move_once followed by one call of a query function.
SpecApi == Init /\ [][NextApi]_vars

\* The states prepare_for_state is called with: up to one atom more than the
\* system can hold.
PrepareStates == {State(E, N) : E \in QueryEnergies, N \in 0 .. MaxAtoms + 1}

\* A call of the public Bins::prepare_for_state on the bins: what it returned,
\* and the bins it was called on.
CallPrepareForState ==
    /\ ret.op = "none"
    /\ \E s \in PrepareStates :
        /\ ret' = [op |-> "prepare_for_state", arg |-> s,
                   val |-> [returned |-> NeedsRoom(bins, s), before |-> bins]]
        /\ bins' = prepare_for_state(bins, s)
    /\ UNCHANGED <<system, method, moves, accepted_moves, last, visits, trail,
                 move_plan, addremove_probability, control>>

MoveOnceGrid == Step(MaxMovesGrid)

NextGrid == CallPrepareForState \/ MoveOnceGrid

\* Runs of move_once followed by one call of prepare_for_state.
SpecGrid == Init /\ [][NextGrid]_vars

MoveOnceRate == Step(MaxMovesRate)

InitRate == Start({AcceptanceRate(r) : r \in Rates})

NextRate == MoveOnceRate

\* Runs of move_once with the move plan AcceptanceRate(r).
SpecRate == InitRate /\ [][NextRate]_vars

----
\* C1: when prepare_for_state grows the grid, every entry of histogram, lnw,
\* round_trips and have_visited_since_maxentropy that existed before is found
\* unchanged at its remapped index new.state_to_index(old.index_to_state(i)),
\* distinct old indices go to distinct new indices, and every other entry of
\* the new arrays is 0 / false.
C1_GrowKeepsEveryEntry ==
    last.grew =>
        LET old == last.before
            new == last.after
            at(i) == state_to_index(new, index_to_state(old, i))
            olds == 0 .. nbins(old) - 1
            news == 0 .. nbins(new) - 1
            kept == {at(i) : i \in olds}
        IN  /\ DOMAIN new.histogram = news /\ DOMAIN new.lnw = news
            /\ DOMAIN new.round_trips = news
            /\ DOMAIN new.have_visited_since_maxentropy = news
            /\ \A i \in olds :
                /\ at(i) \in news
                /\ new.histogram[at(i)] = old.histogram[i]
                /\ new.lnw[at(i)] = old.lnw[i]
                /\ new.round_trips[at(i)] = old.round_trips[i]
                /\ new.have_visited_since_maxentropy[at(i)]
                       = old.have_visited_since_maxentropy[i]
            /\ \A i, k \in olds : i # k => at(i) # at(k)
            /\ \A j \in news \ kept :
                /\ new.histogram[j] = 0
                /\ new.lnw[j] = 0
                /\ new.round_trips[j] = 0
                /\ ~new.have_visited_since_maxentropy[j]

\* A grow that moves a visited, weighted, flagged entry to another index.
C1_Witness ==
    /\ last.grew
    /\ \E i \in DOMAIN last.before.lnw :
        /\ state_to_index(last.after, index_to_state(last.before, i)) # i
        /\ last.before.histogram[i] > 0
        /\ last.before.lnw[i] > 0
        /\ last.before.round_trips[i] > 0
        /\ last.before.have_visited_since_maxentropy[i]


\* C2: in every grid that the prepare_for_state calls reach, every index
\* i < num_E*(max_N+1) satisfies state_to_index(index_to_state(i)) = i.
C2_IndexRoundTrip ==
    ret.op = "index_to_state" => state_to_index(bins, ret.val) = ret.arg

\* index_to_state was called on a grid that grew in both directions, with an
\* index that is neither in the first row nor in the first column.
C2_Witness ==
    /\ ret.op = "index_to_state"
    /\ bins.max_N > 0 /\ bins.num_E > 1 /\ bins.min < Min(InitialEnergies) - Max(Widths)
    /\ ret.arg \div (bins.max_N + 1) > 0
    /\ ret.arg % (bins.max_N + 1) > 0

\* C7: state_to_index(s) called with s.energy < min ends in a fatal error.
C7_BelowMinIsFatal ==
    (ret.op = "state_to_index" /\ ret.arg.E < bins.min) => ret.val.fatal


\* C3 as stated: under the Wang-Landau method gamma never increases; every
\* step leaves gamma unchanged or halves it.
C3_GammaOnlyHalves ==
    [][method.kind = "WL" =>
          (method'.gamma = method.gamma \/ 2 * method'.gamma = method.gamma)]_vars

\* C3 as amended: under the Wang-Landau method a step in which the grid grows
\* for the candidate while gamma != 1 restarts gamma at 1 before the weight
\* update; every step then leaves the gamma it has at the weight update
\* unchanged or halves it there.  So gamma increases only in a restart.
C3_GammaHalvesOrRestarts ==
    [][method.kind = "WL" =>
          /\ last'.fresh => (last'.aux_grew /\ method.gamma # LnwUnit)
          /\ last'.gamma = IF last'.fresh THEN LnwUnit ELSE method.gamma
          /\ method'.gamma = IF last'.halved THEN last'.gamma \div 2 ELSE last'.gamma
          /\ 2 * (last'.gamma \div 2) = last'.gamma]_vars

\* A step restarted a gamma that an earlier step had halved.
C3_Witness ==
    /\ method.kind = "WL"
    /\ last.fresh
    /\ method.gamma = LnwUnit

\* C4: under the Wang-Landau method gamma is halved in a weight update only
\* if, for the auxiliary histogram as it stands just before being reset, the
\* grid has more than one bin and min_nonzero_count >= 0.8 * total_count /
\* occupied_states (the smallest non-zero count, the sum of all counts and
\* the number of non-zero counts of the auxiliary histogram).
C4_HalvedOnlyWhenFlat ==
    (method.kind = "WL" /\ last.halved) =>
        LET h == last.counted
            occupied == {k \in DOMAIN h : h[k] # 0}
        IN  /\ Cardinality(DOMAIN h) > 1
            /\ occupied # {}
            /\ 10 * Min({h[k] : k \in occupied}) * Cardinality(occupied) >= 8 * Sum(h)


\* The latest four move_once calls visited the max-entropy bin, then another
\* bin X, then the max-entropy bin again, then X again, and none of them
\* created a new maximum.
RoundTripPath ==
    /\ Len(trail) = 4
    /\ trail[1].at_max /\ trail[3].at_max /\ trail[3].bin = trail[1].bin
    /\ ~trail[2].at_max /\ ~trail[4].at_max
    /\ trail[2].bin # trail[1].bin /\ trail[4].bin = trail[2].bin
    /\ \A k \in 1 .. 4 : trail[k].branch # "newmax"

\* C5 as stated: over such a path round_trips[X] increases by exactly one:
\* not on the first visit to X, and once on the second.
C5_OneRoundTrip ==
    RoundTripPath =>
        /\ trail[2].rt_after = trail[2].rt_before
        /\ trail[4].rt_after = trail[4].rt_before + 1
        /\ trail[4].rt_after = trail[2].rt_before + 1

\* C5 as amended: over such a path round_trips[X] increases by one on the
\* second visit to X, is not changed by the visit to the max-entropy bin in
\* between, and increases by one on the first visit to X as well exactly when
\* X's have_visited_since_maxentropy flag is false at that visit.
C5_RoundTripPerClearedVisit ==
    RoundTripPath =>
        /\ trail[4].rt_after = trail[4].rt_before + 1
        /\ trail[4].rt_before = trail[2].rt_after
        /\ trail[2].rt_after = trail[2].rt_before + (IF trail[2].flag_before THEN 0 ELSE 1)
        /\ ~trail[4].flag_before

\* Such a path, on which the first visit to X counted a round trip too.
C5_Witness ==
    /\ RoundTripPath
    /\ trail[2].rt_after = trail[2].rt_before + 1
    /\ trail[4].rt_after = trail[2].rt_before + 2


\* The bins with a positive log-weight.
Weighted_bins == {k \in DOMAIN bins.lnw : bins.lnw[k] > 0}

\* The value that temperature returned is the quotient T.
TemperatureIs(v, T) ==
    \/ v.returns = "Tlo" /\ v.Tlo = T
    \/ v.returns = "Thi" /\ v.Thi = T
    \/ /\ v.returns = "average" /\ v.Tlo.k = "fin" /\ v.Thi.k = "fin" /\ T.k = "fin"
       /\ T.d * (v.Thi.n * v.Tlo.d + v.Tlo.n * v.Thi.d) = 2 * T.n * v.Thi.d * v.Tlo.d

\* temperature was called with the centre state of one of the two bins with
\* positive lnw of a table with a single particle count, lnw increasing with
\* the energy.
TwoBinTable ==
    /\ ret.op = "temperature"
    /\ bins.max_N = 0
    /\ Cardinality(Weighted_bins) = 2
    /\ \A j, k \in Weighted_bins : j < k => bins.lnw[j] < bins.lnw[k]
    /\ state_to_index(bins, ret.arg) \in Weighted_bins
    /\ ret.arg = index_to_state(bins, state_to_index(bins, ret.arg))

\* C6: on such a table temperature(s) returns a finite positive value equal
\* to the single finite-difference slope (E_i - E_j)/(lnw_i - lnw_j), j being
\* the other occupied bin.
C6_TwoBinSlope ==
    TwoBinTable =>
        LET i == state_to_index(bins, ret.arg)
            j == CHOOSE k \in Weighted_bins : k # i
            slope == Quotient(index_to_state(bins, i).E - index_to_state(bins, j).E,
                              bins.lnw[i] - bins.lnw[j])
        IN  /\ slope.k = "fin" /\ slope.n > 0
            /\ TemperatureIs(ret.val, slope)

\* The state s lies in bin i of the grid b: its count is the bin's, and its
\* energy is in the closed-open interval of the bin.
InBin(b, s, i) ==
    /\ s.N = i % (b.max_N + 1)
    /\ b.min + (i \div (b.max_N + 1)) * b.width <= s.E
    /\ s.E < b.min + (i \div (b.max_N + 1) + 1) * b.width

\* The number of recorded states (the initial one included) that lie in bin i.
VisitsIn(i) ==
    LET here == {s \in BagToSet(visits) : InBin(bins, s, i)}
    IN  SumOver([s \in here |-> CopiesIn(s, visits)], here)

\* C8: after any sequence of move_once calls, growing ones included,
\* histogram[b] equals the number of steps whose resulting state lay in b,
\* plus 1 for the bin of the initial state; the sum of the histogram is
\* moves + 1.
C8_HistogramCountsVisits ==
    /\ \A i \in 0 .. nbins(bins) - 1 : bins.histogram[i] = VisitsIn(i)
    /\ DOMAIN bins.histogram = 0 .. nbins(bins) - 1
    /\ Sum(bins.histogram) = moves + 1

\* The grid grew towards lower energy and towards a higher count, and some
\* bin was visited more than once, another one never.
C8_Witness ==
    /\ bins.min < Min(InitialEnergies) - Max(Widths)
    /\ bins.max_N > 0
    /\ moves = MaxMoves
    /\ \E i, k \in DOMAIN bins.histogram : bins.histogram[i] >= 2 /\ bins.histogram[k] = 0

\* C9: whenever a candidate is proposed whose log-weight lnw2 is at most the
\* current state's lnw1, the move is accepted: the system is told to confirm
\* (it is in the candidate state afterwards), accepted_moves and the accept
\* counter of the move's category increase by one; with either method.
C9_DownhillIsAccepted ==
    [][(last'.proposed /\ last'.lnw2 <= last'.lnw1) =>
          /\ last'.confirmed
          /\ system' = [E |-> last'.e2.E, N |-> last'.e2.N]
          /\ accepted_moves' = accepted_moves + 1
          /\ IF last'.category = "translate"
             THEN /\ bins'.num_translation_accepted[system.N]
                        = bins.num_translation_accepted[system.N] + 1
                  /\ bins'.num_addremove_accepted = bins.num_addremove_accepted
             ELSE /\ bins'.num_addremove_accepted = bins.num_addremove_accepted + 1
                  /\ \A n \in DOMAIN bins.num_translation_accepted :
                        bins'.num_translation_accepted[n] = bins.num_translation_accepted[n]]_vars

\* A candidate in a bin of positive, equal or lower weight was accepted under
\* the Wang-Landau method.
C9_Witness ==
    /\ method.kind = "WL"
    /\ last.proposed /\ last.confirmed
    /\ last.lnw2 > 0 /\ last.lnw2 <= last.lnw1

\* C10: under the SAMC method with parameter t0, the modification factor used
\* at move count t is exactly 1 when t <= t0 and exactly t0/t when t > t0.
C10_SamcGamma ==
    (method.kind = "Samc" /\ moves >= 1) =>
        /\ moves <= method.t0 => last.gamma = LnwUnit
        /\ moves > method.t0 => last.gamma * moves = method.t0 * LnwUnit

\* A move count above a positive t0: the factor is below 1 and not 0.
C10_Witness ==
    /\ method.kind = "Samc" /\ method.t0 > 0
    /\ moves > method.t0
    /\ last.gamma * moves = method.t0 * LnwUnit
    /\ last.gamma # LnwUnit /\ last.gamma # 0


\* The grid new is the grid old, or the grid old grown.
Grown(old, new) ==
    /\ new.num_E >= old.num_E
    /\ new.max_N >= old.max_N
    /\ new.min <= old.min
    /\ emax(new) >= emax(old)
    /\ new.width = old.width
    /\ old.width > 0

\* C11: over any sequence of prepare_for_state and move_once calls the grid
\* only grows: num_E and max_N never decrease, min never increases,
\* min + width*num_E never decreases, width stays constant and above 0 (for
\* the bins of the engine and for the bins the Wang-Landau method keeps).
C11_GridOnlyGrows ==
    [][/\ Grown(bins, bins')
       /\ method.kind = "WL" => Grown(method.bins, method'.bins)]_vars

\* A grid that move_once calls had grown was grown further, downwards and to
\* a higher count, by a call of prepare_for_state.
C11_Witness ==
    /\ ret.op = "prepare_for_state"
    /\ ret.val.before.num_E > 1
    /\ bins.min < ret.val.before.min
    /\ bins.max_N > ret.val.before.max_N

\* The calls of prepare_for_state that the state records: the direct call,
\* and the call of the latest move_once on its candidate.
PrepareCalls ==
    (IF ret.op = "prepare_for_state"
     THEN {[s |-> ret.arg, old |-> ret.val.before, new |-> bins,
            returned |-> ret.val.returned]}
     ELSE {})
    \cup
    (IF last.proposed
     THEN {[s |-> last.e2, old |-> last.before, new |-> last.after,
            returned |-> last.grew]}
     ELSE {})

\* C12: after prepare_for_state(s) the grid covers s (s.N <= max_N and
\* min <= s.E < min + width*num_E), the new max_N is max(old max_N, s.N), and
\* min and num_E changed by the smallest number of whole bin widths that
\* achieves coverage.
C12_CoversWithLeastGrowth ==
    \A c \in PrepareCalls :
        /\ c.s.N <= c.new.max_N
        /\ c.new.min <= c.s.E /\ c.s.E < emax(c.new)
        /\ c.new.max_N = Max({c.old.max_N, c.s.N})
        /\ (c.old.min - c.new.min) % c.old.width = 0
        /\ (emax(c.new) - emax(c.old)) % c.old.width = 0
        /\ IF c.s.E < c.old.min THEN c.s.E < c.new.min + c.old.width
           ELSE c.new.min = c.old.min
        /\ IF c.s.E >= emax(c.old) THEN c.s.E >= emax(c.new) - c.old.width
           ELSE emax(c.new) = emax(c.old)

\* A call grew the grid upwards by more than one bin, and to a higher count.
C12_Witness ==
    /\ ret.op = "prepare_for_state"
    /\ emax(bins) >= emax(ret.val.before) + 2 * bins.width
    /\ bins.max_N > ret.val.before.max_N
    /\ last.proposed /\ last.after.min < last.before.min

\* C14: prepare_for_state(s) returns true exactly when s lies outside the
\* grid (s.N > max_N, or s.E < min, or s.E >= min + width*num_E); when it
\* returns false, no field of Bins is changed.
C14_ReturnsWhetherOutside ==
    \A c \in PrepareCalls :
        /\ c.returned <=> (\/ c.s.N > c.old.max_N
                           \/ c.s.E < c.old.min
                           \/ c.s.E >= c.old.min + c.old.width * c.old.num_E)
        /\ ~c.returned => c.new = c.old

\* The call of the latest move_once returned false on a grid of several
\* bins, and a direct call with the state on the upper edge of that grid
\* returned true.
C14_Witness ==
    /\ last.proposed /\ ~last.grew /\ last.after = last.before
    /\ last.before.num_E > 1
    /\ ret.op = "prepare_for_state"
    /\ ret.val.returned /\ ret.arg.E = emax(ret.val.before)


\* C13: under the Wang-Landau method, in the state immediately after a weight
\* update that halved gamma, every count of the auxiliary histogram is 0 and
\* total_hist and lowest_hist are 0.
C13_HalvingZeroesTheCounts ==
    (method.kind = "WL" /\ last.halved) =>
        /\ \A k \in DOMAIN method.bins.histogram : method.bins.histogram[k] = 0
        /\ method.total_hist = 0
        /\ method.lowest_hist = 0

\* A halving with counts in several bins, more than one in some bin.
C13_Witness ==
    /\ method.kind = "WL" /\ last.halved
    /\ Cardinality({k \in DOMAIN last.counted : last.counted[k] > 0}) >= 2
    /\ \E k \in DOMAIN last.counted : last.counted[k] >= 2
    /\ last.total > 0 /\ last.lowest > 0

\* C15: in every state reached after a move_once call, max_S_index is the
\* index of the max-entropy bin: lnw[max_S_index] = max_S and max_S is the
\* largest value in lnw; also after steps that grew the grid.
C15_MaxSIndexIsTheMaxBin ==
    moves >= 1 =>
        /\ bins.max_S_index \in DOMAIN bins.lnw
        /\ bins.lnw[bins.max_S_index] = bins.max_S
        /\ \A k \in DOMAIN bins.lnw : bins.lnw[k] <= bins.max_S

\* C16: every move_once step that clears all have_visited_since_maxentropy
\* flags ends in the max-entropy bin (the bin whose log-weight equals max_S)
\* and started in another bin; no step that ends in another bin clears them.
C16_ClearsOnlyAtTheMaxBin ==
    last.branch = "clear" =>
        /\ bins.lnw[last.i] = bins.max_S
        /\ last.i1 # last.i
        /\ \A k \in DOMAIN bins.have_visited_since_maxentropy :
              ~bins.have_visited_since_maxentropy[k]

\* The counts of the auxiliary histogram old are all found in new, at their
\* remapped indices, and new has no other count.
CountsKept(old, new) ==
    /\ \A k \in DOMAIN old.histogram :
          new.histogram[RemapIndex(old, new, k)] = old.histogram[k]
    /\ Sum(new.histogram) = Sum(old.histogram)

\* C18: under the Wang-Landau method, when the grid grows for a candidate
\* state: if gamma != 1 (or the auxiliary histogram is empty) gamma is 1 and
\* lowest_hist, highest_hist and total_hist are 0 at the acceptance decision
\* of that step; if gamma = 1, gamma, the three counters and all accumulated
\* auxiliary counts are as they were.
C18_RestartOnGrowth ==
    [][(method.kind = "WL" /\ last'.proposed /\ last'.grew) =>
          /\ last'.aux_grew
          /\ IF method.gamma # LnwUnit \/ DOMAIN last'.regrouped.bins.histogram = {}
             THEN /\ last'.regrouped.gamma = LnwUnit
                  /\ last'.regrouped.lowest_hist = 0
                  /\ last'.regrouped.highest_hist = 0
                  /\ last'.regrouped.total_hist = 0
             ELSE /\ last'.regrouped.gamma = method.gamma
                  /\ last'.regrouped.lowest_hist = method.lowest_hist
                  /\ last'.regrouped.highest_hist = method.highest_hist
                  /\ last'.regrouped.total_hist = method.total_hist
                  /\ CountsKept(method.bins, last'.regrouped.bins)]_vars

\* The grid grew for a candidate after a halving: the schedule was restarted.
C18_Witness ==
    /\ method.kind = "WL"
    /\ last.proposed /\ last.grew /\ last.fresh
    /\ last.regrouped.gamma = LnwUnit
    /\ last.gamma = LnwUnit
    /\ Len(trail) >= 2

\* C19: under the Wang-Landau method, after every weight update highest_hist
\* equals the largest count in the auxiliary histogram.
C19_HighestHistIsTheMax ==
    (method.kind = "WL" /\ moves >= 1) =>
        method.highest_hist = Max({method.bins.histogram[k] : k \in DOMAIN method.bins.histogram})

\* C20: in every state reached by move_once calls, num_states is the number
\* of bins whose histogram count is non-zero, and t_last is the move count of
\* the most recent step that visited a bin with zero prior histogram count
\* (1 if there was none).
C20_NumStatesAndTLast ==
    /\ [](bins.num_states = Cardinality({k \in DOMAIN bins.histogram : bins.histogram[k] # 0}))
    /\ [](moves = 0 => bins.t_last = 1)
    /\ [][bins'.t_last = IF last'.after.histogram[last'.i] = 0 THEN moves'
                         ELSE bins.t_last]_vars

\* Three bins were discovered, the latest one after the first move and
\* before the latest move.
C20_Witness ==
    /\ bins.num_states >= 3
    /\ bins.t_last > 1 /\ bins.t_last < moves
    /\ \E k \in DOMAIN bins.histogram : bins.histogram[k] = 0


\* C17: in the add/remove-probability control of move_once (AcceptanceRate
\* mode), whenever the computed new probability is not a finite number (NaN,
\* +infinity or -infinity), addremove_probability is left unchanged by that
\* step.
C17_NonFiniteLeavesProbability ==
    [][(control'.ran /\ control'.new_p.k # "fin") =>
          addremove_probability' = addremove_probability]_vars


\* C21: when the external system returns no proposal in a move_once step
\* (plan_move or plan_add returns None, or add/remove is disallowed), there is
\* no acceptance evaluation: confirm() is not called (the system keeps its
\* state), accepted_moves and every accept counter are unchanged, the grid is
\* not grown, the attempt counter of the chosen category is incremented by
\* one, and the histogram and log-weight of the unchanged current state are
\* updated.
C21_NoProposalStillVisits ==
    [][(moves' = moves + 1 /\ ~last'.proposed) =>
          LET i == state_to_index(bins, StateOf(system))
          IN  /\ ~last'.confirmed /\ system' = system
              /\ ~last'.aux_grew /\ ~last'.fresh
              /\ accepted_moves' = accepted_moves
              /\ bins'.num_translation_accepted = bins.num_translation_accepted
              /\ bins'.num_addremove_accepted = bins.num_addremove_accepted
              /\ bins'.min = bins.min /\ bins'.num_E = bins.num_E
              /\ bins'.max_N = bins.max_N /\ bins'.width = bins.width
              /\ DOMAIN bins'.lnw = DOMAIN bins.lnw
              /\ method.kind = "WL" =>
                    /\ method'.bins.min = method.bins.min
                    /\ method'.bins.num_E = method.bins.num_E
                    /\ method'.bins.max_N = method.bins.max_N
              /\ IF last'.category = "translate"
                 THEN /\ bins'.num_translation_attempts =
                            [bins.num_translation_attempts EXCEPT ![system.N] = @ + 1]
                      /\ bins'.num_addremove_attempts = bins.num_addremove_attempts
                 ELSE /\ bins'.num_addremove_attempts = bins.num_addremove_attempts + 1
                      /\ bins'.num_translation_attempts = bins.num_translation_attempts
              /\ bins'.histogram = [bins.histogram EXCEPT ![i] = @ + 1]
              /\ bins'.lnw = [bins.lnw EXCEPT ![i] = @ + last'.gamma]]_vars

\* A step without a proposal, of either category, on a grown grid with atoms
\* in the system, that added a positive gamma.
C21_Witness ==
    /\ moves >= 2 /\ ~last.proposed
    /\ last.category = "addremove"
    /\ system.N > 0 /\ bins.num_E > 1
    /\ last.gamma > 0
    /\ bins.num_translation_attempts[0] > 0


\* The modification factor in force at the weight update of the step to the
\* primed state, before any halving in that step: t0/t capped at 1 for SAMC;
\* for Wang-Landau the gamma the step started with, or 1 when the step
\* restarted the schedule.
GammaInForce ==
    IF method.kind = "Samc"
    THEN IF moves' > method.t0 THEN (method.t0 * LnwUnit) \div moves' ELSE LnwUnit
    ELSE IF last'.fresh THEN LnwUnit ELSE method.gamma

\* The log-weight that bin k of the primed grid had in the unprimed grid: that
\* of the old bin with the same centre and count, 0 for a bin that is new.
LnwBefore(k) ==
    LET from == {j \in DOMAIN bins.lnw : RemapIndex(bins, bins', j) = k}
    IN  IF from = {} THEN 0 ELSE bins.lnw[CHOOSE j \in from : TRUE]

\* C22: every move_once call, whether its move was accepted, rejected or not
\* proposed, adds the modification factor gamma in force (before any halving
\* in that step) to the log-weight of exactly one bin, the bin of the
\* system's resulting state, and leaves the log-weight of every other bin
\* unchanged, up to the remapping of indices by a grow.
C22_GammaAddedToOneBin ==
    [][moves' = moves + 1 =>
          /\ \A j, k \in DOMAIN bins.lnw :
                RemapIndex(bins, bins', j) = RemapIndex(bins, bins', k) => j = k
          /\ \A k \in DOMAIN bins'.lnw :
                bins'.lnw[k] = LnwBefore(k)
                    + (IF k = state_to_index(bins', StateOf(system')) THEN GammaInForce
                       ELSE 0)]_vars

\* A weight update under the Wang-Landau method that halved gamma after
\* adding the unhalved value, on a grown grid with another weighted bin.
C22_Witness ==
    /\ method.kind = "WL"
    /\ bins.num_E > 1
    /\ last.halved /\ last.gamma = 2 * method.gamma
    /\ bins.lnw[last.i] >= last.gamma
    /\ \E k \in DOMAIN bins.lnw : k # last.i /\ bins.lnw[k] > 0


\* C23: for a run that starts with a particle count not above the configured
\* maximum, after any sequence of move_once calls the system's particle count
\* is within [0, configured maximum]: no add is proposed when the count
\* equals the maximum and no remove is proposed when the count is 0.
C23_CountWithinLimits ==
    /\ system.N \in 0 .. MaxAtoms
    /\ (last.proposed /\ last.category = "addremove") =>
          /\ last.e2.N \in 0 .. MaxAtoms
          /\ last.e2.N = last.e1.N + 1 \/ last.e2.N = last.e1.N - 1
    /\ (last.proposed /\ last.category = "translate") => last.e2.N = last.e1.N

\* The system was filled to the maximum, and an add/remove attempt then
\* proposed nothing.
C23_Witness ==
    /\ system.N = MaxAtoms
    /\ last.category = "addremove" /\ ~last.proposed
    /\ last.e1.N = MaxAtoms
    /\ bins.max_N = MaxAtoms


\* C24: under the Wang-Landau method, in every state reached by move_once
\* calls the auxiliary Bins has the same geometry as the primary Bins (same
\* min, width, num_E and max_N, hence the same histogram length), so an index
\* computed with the primary grid addresses the same (energy, count) bin in
\* the auxiliary histogram.
C24_SameGeometry ==
    method.kind = "WL" =>
        /\ method.bins.min = bins.min
        /\ method.bins.width = bins.width
        /\ method.bins.num_E = bins.num_E
        /\ method.bins.max_N = bins.max_N
        /\ DOMAIN method.bins.histogram = DOMAIN bins.histogram
        /\ \A k \in DOMAIN bins.histogram :
              /\ index_to_state(method.bins, k) = index_to_state(bins, k)
              /\ state_to_index(method.bins, index_to_state(bins, k)) = k

\* Both grids grew downwards, upwards and to a higher count.
C24_Witness ==
    /\ method.kind = "WL"
    /\ bins.max_N > 0
    /\ bins.min < Min(InitialEnergies) - Max(Widths)
    /\ emax(bins) > Max(InitialEnergies) + Max(Widths)
    /\ Sum(method.bins.histogram) >= 3

\* C26: in every state reached by move_once calls, growing ones included,
\* moves equals num_addremove_attempts plus the sum of
\* num_translation_attempts over all particle counts, accepted_moves equals
\* num_addremove_accepted plus the sum of num_translation_accepted over all
\* particle counts, and accepted_moves <= moves.
C26_CountersAddUp ==
    /\ moves = bins.num_addremove_attempts + Sum(bins.num_translation_attempts)
    /\ accepted_moves = bins.num_addremove_accepted + Sum(bins.num_translation_accepted)
    /\ accepted_moves <= moves
    /\ DOMAIN bins.num_translation_attempts = 0 .. bins.max_N
    /\ DOMAIN bins.num_translation_accepted = 0 .. bins.max_N

\* Translations were attempted with and without atoms, the grid had grown to
\* a higher count between them, and not every move was accepted.
C26_Witness ==
    /\ bins.max_N > 0
    /\ bins.num_translation_attempts[0] > 0
    /\ bins.num_translation_attempts[bins.max_N] > 0
    /\ bins.num_translation_accepted[0] > 0
    /\ bins.num_addremove_accepted > 0
    /\ accepted_moves < moves


\* The arrays of the bins b have the lengths of its grid.
WellSized(b) ==
    /\ DOMAIN b.lnw = 0 .. nbins(b) - 1
    /\ DOMAIN b.histogram = 0 .. nbins(b) - 1
    /\ DOMAIN b.have_visited_since_maxentropy = 0 .. nbins(b) - 1
    /\ DOMAIN b.round_trips = 0 .. nbins(b) - 1
    /\ DOMAIN b.translation_scale = 0 .. b.max_N
    /\ DOMAIN b.num_translation_attempts = 0 .. b.max_N
    /\ DOMAIN b.num_translation_accepted = 0 .. b.max_N

\* C25: for a run started with zero particles and width > 0, no move_once
\* call can hit a runtime failure: every array access (histogram, lnw, flags,
\* round_trips, auxiliary histogram, per-count arrays) uses an index below the
\* array's length, the grid having been grown to cover the candidate before
\* any index is computed for it; t_last is never 0 when used as a modulus;
\* the unsigned subtractions accepted_moves - num_addremove_accepted and
\* moves - num_addremove_attempts never go below 0.
C25_NoRuntimeFailure ==
    /\ bins.width > 0
    /\ WellSized(bins) /\ WellSized(last.before) /\ WellSized(last.after)
    /\ ~NeedsRoom(bins, StateOf(system))
    /\ bins.t_last >= 1 /\ last.before.t_last >= 1
    /\ accepted_moves - bins.num_addremove_accepted >= 0
    /\ moves - bins.num_addremove_attempts >= 0
    /\ method.kind = "WL" => DOMAIN method.bins.histogram = 0 .. nbins(method.bins) - 1
    /\ moves >= 1 =>
          /\ last.e1.N \in DOMAIN last.before.num_translation_attempts
          /\ last.e1.N \in DOMAIN last.before.translation_scale
          /\ last.e1.N \in DOMAIN last.after.num_translation_accepted
          /\ ~NeedsRoom(last.after, last.e1)
          /\ state_to_index(last.after, last.e1) \in DOMAIN last.after.lnw
          /\ last.proposed =>
                /\ ~NeedsRoom(last.after, last.e2)
                /\ state_to_index(last.after, last.e2) \in DOMAIN last.after.lnw
          /\ last.i = state_to_index(bins, StateOf(system))
          /\ last.i \in DOMAIN bins.histogram
          /\ last.i \in DOMAIN bins.lnw
          /\ last.i \in DOMAIN bins.have_visited_since_maxentropy
          /\ last.i \in DOMAIN bins.round_trips
          /\ method.kind = "WL" => last.i \in DOMAIN method.bins.histogram

\* The control ran on a grid that had grown downwards and to a higher count,
\* after moves of both categories, with a candidate in the topmost bin.
C25_Witness ==
    /\ control.ran /\ control.new_p.k = "fin"
    /\ bins.max_N > 0 /\ bins.min < Min(InitialEnergies) - Max(Widths)
    /\ bins.num_addremove_attempts > 0
    /\ moves - bins.num_addremove_attempts > 0
    /\ last.proposed
    /\ last.i = nbins(bins) - 1

====
